---------------------------- MODULE Spec2Model ----------------------------
(***************************************************************************)
(* A model of the two timing-repair scripts of LangDocMAUS:                *)
(*                                                                         *)
(*   import_wordtimes_from_toolbox_to_elan.py  (the External Timing        *)
(*       Importer: extractWordTimes, parent resolution by time interval,   *)
(*       word time assignment with containment repair)                     *)
(*   flexibilize_imported_toolbox_in_elan.py   (the Annotation Graph       *)
(*       Builder and the Anchor Disambiguator)                             *)
(*                                                                         *)
(* Every script is a straight-line program; its loops are the actions of   *)
(* the state machine and `pc` is the place the script has reached.  The    *)
(* ELAN document (module elan, not part of the sources) is modelled by the *)
(* accessors the scripts call: an annotation holds the ids of its start    *)
(* and end time slot, the time order maps a time slot id to its value.     *)
(***************************************************************************)
EXTENDS Integers, Sequences, FiniteSets, TLC

(***************************************************************************)
(* Bounds of the model.                                                    *)
(***************************************************************************)
\* Largest word time, in milliseconds, that the Toolbox file holds.
MaxTime == 3

\* Most daughter annotations under one parent annotation.
MaxDaughters == 3

\* Most digits after the decimal point of a time written by hand.
MaxFractionDigits == 3

\* Python's None for a time value that is not set.
None == -1

(***************************************************************************)
(* Dictionaries (Python dict): functions whose domain is the key set.      *)
(***************************************************************************)
EmptyDict == [k \in {} |-> 0]

Put(d, k, v) == [x \in (DOMAIN d) \cup {k} |-> IF x = k THEN v ELSE d[x]]

Last(s) == s[Len(s)]

(***************************************************************************)
(* Strings of the Toolbox file are sequences of characters, so that the    *)
(* conversion of a time can be computed as the script computes it.         *)
(***************************************************************************)
Digits == <<"0", "1", "2", "3", "4", "5", "6", "7", "8", "9">>

DigitValue(c) == (CHOOSE i \in 1..10 : Digits[i] = c) - 1

\* int(s) for a string of decimal digits.
RECURSIVE ParseInt(_)
ParseInt(s) ==
    IF s = << >> THEN 0
    ELSE 10 * ParseInt(SubSeq(s, 1, Len(s) - 1)) + DigitValue(Last(s))

IsNotDot(c) == c # "."

\* re.sub(r"\.", "", s)
RemoveDots(s) == SelectSeq(s, IsNotDot)

\* int(re.sub(r"\.", "", s)): lines 387 and 388 of the importer.
ConvertTime(s) == ParseInt(RemoveDots(s))

\* "%.3f" % seconds for a time of ms milliseconds, as MAU2Toolbox.py writes
\* the word times into the Toolbox file.
RECURSIVE IntDigits(_)
IntDigits(n) ==
    IF n < 10 THEN <<Digits[n + 1]>>
    ELSE Append(IntDigits(n \div 10), Digits[(n % 10) + 1])

Format3(ms) ==
    IntDigits(ms \div 1000) \o <<".">> \o
    <<Digits[((ms \div 100) % 10) + 1], Digits[((ms \div 10) % 10) + 1], Digits[(ms % 10) + 1]>>


(***************************************************************************)
(* The state.  Both scripts hold the same kind of data under the same      *)
(* names, so the model keeps one set of variables.                         *)
(***************************************************************************)
VARIABLES
    pc,                          \* the place the running script has reached
    elan_file,                   \* the ELAN document: tiers, annotations, time order
    input_file,                  \* the document as it was read (line 42 / line 212)
    toolbox_file,                \* the lines of the Toolbox file (importer)
    toolbox_refs_to_word_times,  \* reference -> <<word start times, word end times>>
    annotation_to_parent_annotation,
    parent_annotation_to_daughter_annotations,
    ann_index,                   \* how far the running loop over the annotations is
    output_written,              \* whether the output file has been written
    \* flexibilize_imported_toolbox_in_elan.py only:
    run,                         \* 1, or 2 when the script runs on its own output
    original_annotation_times,
    time_slots_to_annotations,
    parent_time_slots,
    preceding_first_daughter_annotations,
    daughter_positions,
    tier_index,                  \* how far the loop over relevant_tiers is
    current_annotation_id,
    current_annotation_start_time_slot,
    current_annotation_start_time,
    position,
    other_annotations,           \* the list the for loop of line 259 runs over
    offset,
    slot_index,                  \* how far the loop over original_time_order is
    new_time_order,
    synthesized_from,            \* for each slot of new_time_order, the original slot
    time_order_mapping

importVars == <<toolbox_file, toolbox_refs_to_word_times>>

mapVars == <<annotation_to_parent_annotation, parent_annotation_to_daughter_annotations>>

indexVars == <<time_slots_to_annotations, parent_time_slots>>

graphVars == <<preceding_first_daughter_annotations, daughter_positions>>

walkVars == <<current_annotation_id, current_annotation_start_time_slot,
              current_annotation_start_time, position, other_annotations>>

slotVars == <<offset, slot_index, new_time_order, synthesized_from, time_order_mapping>>

flexVars == <<run, original_annotation_times, indexVars, graphVars, tier_index,
              walkVars, slotVars>>

vars == <<pc, elan_file, input_file, importVars, mapVars, ann_index, output_written,
          flexVars>>

(***************************************************************************)
(* The ELAN document, as the scripts read it through module elan.          *)
(*   elan_file.tiers        sequence of [tier_id, linguistic_type,         *)
(*                          parent_ref, annotations (ids, document order)] *)
(*   elan_file.annotations  annotation id -> [value, start, end], start    *)
(*                          and end being time slot ids                    *)
(*   elan_file.time_order   sequence of [id, value] (the time slots)       *)
(* Annotation ids and time slot ids are the numbers that follow "a"/"ann"  *)
(* and "ts" in the document's id strings.                                  *)
(***************************************************************************)
GetTierById(tier_id) ==
    LET i == CHOOSE i \in 1..Len(elan_file.tiers) : elan_file.tiers[i].tier_id = tier_id
    IN elan_file.tiers[i]

HasTimeSlot(order, slot_id) == \E i \in 1..Len(order) : order[i].id = slot_id

\* time_order.get_time_slot_by_id(id).get_time_value()
TimeValueIn(order, slot_id) ==
    IF HasTimeSlot(order, slot_id)
    THEN order[CHOOSE i \in 1..Len(order) : order[i].id = slot_id].value
    ELSE None

\* time_order.get_time_slot_by_id(id).set_time_value(v)
SetTimeValue(order, slot_id, v) ==
    [i \in 1..Len(order) |->
        IF order[i].id = slot_id THEN [order[i] EXCEPT !.value = v] ELSE order[i]]

GetStartTimeSlot(a) == elan_file.annotations[a].start

GetEndTimeSlot(a) == elan_file.annotations[a].end

GetAnnotationValue(a) == elan_file.annotations[a].value

\* annotation.get_start_time(): the value the start time slot holds now.
GetStartTime(a) == TimeValueIn(elan_file.time_order, GetStartTimeSlot(a))

GetEndTime(a) == TimeValueIn(elan_file.time_order, GetEndTimeSlot(a))

(***************************************************************************)
(* import_wordtimes_from_toolbox_to_elan.py                                *)
(***************************************************************************)
reference_tier_name == "ref"

text_tier_name == "t"

word_start_tier_name == "WordBegin"

word_end_tier_name == "WordEnd"

\* cur_utterance_id = None
NoUtterance == ""

\* Lines 128-141 and 187-200: the times collected for the current utterance
\* are saved and the collectors reset, or a warning is printed and the
\* collectors are left as they are.
SaveCurrentUtterance(st) ==
    IF st.cur_utterance_id # NoUtterance
    THEN IF Len(st.cur_word_start_times) > 0 /\ Len(st.cur_word_end_times) > 0
         THEN [st EXCEPT
                 !.refs = Put(st.refs, st.cur_utterance_id,
                              <<st.cur_word_start_times, st.cur_word_end_times>>),
                 !.cur_utterance_id = NoUtterance,
                 !.cur_word_start_times = << >>,
                 !.cur_word_end_times = << >>]
         ELSE st
    ELSE st

\* Lines 116-184: one line of the Toolbox file.  line.contents is what
\* follows the marker, split at white space; an empty one is the line the
\* regular expression does not match, and the script exits.
ExtractLine(line, st) ==
    IF line.marker = reference_tier_name
    THEN LET saved == SaveCurrentUtterance(st)
         IN IF line.contents # << >>
            THEN [saved EXCEPT !.cur_utterance_id = line.contents[1]]
            ELSE [saved EXCEPT !.exited = TRUE]
    ELSE IF line.marker = word_start_tier_name
    THEN IF line.contents # << >>
         THEN [st EXCEPT !.cur_word_start_times = st.cur_word_start_times \o line.contents]
         ELSE [st EXCEPT !.exited = TRUE]
    ELSE IF line.marker = word_end_tier_name
    THEN IF line.contents # << >>
         THEN [st EXCEPT !.cur_word_end_times = st.cur_word_end_times \o line.contents]
         ELSE [st EXCEPT !.exited = TRUE]
    ELSE st

RECURSIVE ExtractLines(_, _)
ExtractLines(lines, st) ==
    IF lines = << >> \/ st.exited THEN st
    ELSE ExtractLines(Tail(lines), ExtractLine(Head(lines), st))

\* extractWordTimes(toolbox_file), lines 100-202.
extractWordTimes(lines) ==
    LET start == [refs |-> EmptyDict, cur_utterance_id |-> NoUtterance,
                  cur_word_start_times |-> << >>, cur_word_end_times |-> << >>,
                  exited |-> FALSE]
        st == ExtractLines(lines, start)
    IN IF st.exited THEN st ELSE SaveCurrentUtterance(st)

\* Lines 228-238: the tiers whose linguistic type is the text tier's name.
RECURSIVE ImportRelevantTiers(_)
ImportRelevantTiers(tiers) ==
    IF tiers = << >> THEN << >>
    ELSE (IF Head(tiers).linguistic_type = text_tier_name THEN <<Head(tiers).tier_id>> ELSE << >>)
         \o ImportRelevantTiers(Tail(tiers))

\* The annotations the two loops over the relevant tiers visit, in order,
\* each with the tier it is on.
RECURSIVE TierWork(_)
TierWork(tier_ids) ==
    IF tier_ids = << >> THEN << >>
    ELSE LET tier == GetTierById(Head(tier_ids))
         IN [i \in 1..Len(tier.annotations) |->
                [tier_id |-> tier.tier_id, annotation_id |-> tier.annotations[i]]]
            \o TierWork(Tail(tier_ids))

ImportWork == TierWork(ImportRelevantTiers(elan_file.tiers))

\* Line 306: is the annotation included in the parent annotation?
IsIncludedIn(annotation_id, parent_annotation_id) ==
    /\ GetStartTime(annotation_id) >= GetStartTime(parent_annotation_id)
    /\ GetEndTime(annotation_id) <= GetEndTime(parent_annotation_id)

\* Lines 284-316: the loop over the parent annotations for one annotation.
\* maps is <<annotation_to_parent_annotation,
\*           parent_annotation_to_daughter_annotations>>.
RECURSIVE ResolveAmong(_, _, _)
ResolveAmong(parent_annotations, annotation_id, maps) ==
    IF parent_annotations = << >> THEN maps
    ELSE LET parent_annotation_id == Head(parent_annotations)
             rest == Tail(parent_annotations)
         IN IF GetAnnotationValue(parent_annotation_id) \notin DOMAIN toolbox_refs_to_word_times
            THEN ResolveAmong(rest, annotation_id, maps)
            ELSE IF IsIncludedIn(annotation_id, parent_annotation_id)
            THEN ResolveAmong(rest, annotation_id,
                    <<Put(maps[1], annotation_id, parent_annotation_id),
                      Put(maps[2], parent_annotation_id,
                          IF parent_annotation_id \in DOMAIN maps[2]
                          THEN Append(maps[2][parent_annotation_id], annotation_id)
                          ELSE <<annotation_id>>)>>)
            ELSE ResolveAmong(rest, annotation_id, maps)

\* sorted(ids, key=remove_ann): the ids in ascending numeric order.
RECURSIVE SortedIds(_)
SortedIds(ids) ==
    IF ids = {} THEN << >>
    ELSE LET least == CHOOSE x \in ids : \A y \in ids : x <= y
         IN <<least>> \o SortedIds(ids \ {least})

SeqRange(s) == {s[i] : i \in 1..Len(s)}

\* Lines 364-378: the position of the annotation among the daughters of its
\* parent, sorted by annotation id; the length of the list if it is not in it.
PositionAmong(daughters, annotation_id) ==
    LET sorted == SortedIds(SeqRange(daughters))
        \* sorted() keeps an id that the list holds twice twice; the lists the
        \* resolution builds hold each id once.
    IN IF \E i \in 1..Len(sorted) : sorted[i] = annotation_id
       THEN (CHOOSE i \in 1..Len(sorted) : sorted[i] = annotation_id) - 1
       ELSE Len(sorted)


\* A variant of RepairParent: the parent is set to the word's times whether
\* or not the word lies outside it.
RepairParentAlways(order, parent_annotation_id, start_time, end_time) ==
    SetTimeValue(SetTimeValue(order, GetStartTimeSlot(parent_annotation_id), start_time),
                 GetEndTimeSlot(parent_annotation_id), end_time)

\* A variant of RepairParent: a word outside the parent at one end moves both
\* ends of the parent.
RepairParentBothEnds(order, parent_annotation_id, start_time, end_time) ==
    IF \/ start_time < TimeValueIn(order, GetStartTimeSlot(parent_annotation_id))
       \/ end_time > TimeValueIn(order, GetEndTimeSlot(parent_annotation_id))
    THEN SetTimeValue(SetTimeValue(order, GetStartTimeSlot(parent_annotation_id),
                                   start_time),
                      GetEndTimeSlot(parent_annotation_id), end_time)
    ELSE order

\* A variant of RepairParent: the end of the parent is never adjusted.
RepairParentStartOnly(order, parent_annotation_id, start_time, end_time) ==
    IF start_time < TimeValueIn(order, GetStartTimeSlot(parent_annotation_id))
    THEN SetTimeValue(order, GetStartTimeSlot(parent_annotation_id), start_time)
    ELSE order

\* Lines 390-405: the parent annotation is adjusted to a word that starts
\* before it or ends after it.  parent_start_time and parent_end_time are
\* the parent's times as read in lines 350 and 351.
RepairParent(order, parent_annotation_id, start_time, end_time) ==
    LET parent_start_time == TimeValueIn(order, GetStartTimeSlot(parent_annotation_id))
        parent_end_time == TimeValueIn(order, GetEndTimeSlot(parent_annotation_id))
        adjusted_start ==
            IF start_time < parent_start_time
            THEN SetTimeValue(order, GetStartTimeSlot(parent_annotation_id), start_time)
            ELSE order
    IN IF end_time > parent_end_time
       THEN SetTimeValue(adjusted_start, GetEndTimeSlot(parent_annotation_id), end_time)
       ELSE adjusted_start

\* A variant of SetWordTimes: the word gets two new time slots at the end of
\* the time order in place of its own.
SetWordTimesReplacing(order, annotation_id, start_time, end_time) ==
    SelectSeq(order, LAMBDA s : s.id \notin {GetStartTimeSlot(annotation_id),
                                             GetEndTimeSlot(annotation_id)})
    \o <<[id |-> GetStartTimeSlot(annotation_id), value |-> start_time],
         [id |-> GetEndTimeSlot(annotation_id), value |-> end_time]>>

\* Lines 407-413: the times are set in the time order directly.
SetWordTimes(order, annotation_id, start_time, end_time) ==
    SetTimeValue(SetTimeValue(order, GetStartTimeSlot(annotation_id), start_time),
                 GetEndTimeSlot(annotation_id), end_time)

\* The annotation the loop of lines 273 and 331 is at.
CurrentAnnotation == ImportWork[ann_index].annotation_id

CurrentParentTier == GetTierById(GetTierById(ImportWork[ann_index].tier_id).parent_ref)

\* Lines 342 and 347.
CurrentParent == annotation_to_parent_annotation[CurrentAnnotation]

CurrentReference == GetAnnotationValue(CurrentParent)

CurrentPosition ==
    PositionAmong(parent_annotation_to_daughter_annotations[CurrentParent], CurrentAnnotation)

(***************************************************************************)
(* The importer's steps.                                                   *)
(***************************************************************************)
ImportUnchangedMaps ==
    UNCHANGED <<annotation_to_parent_annotation, parent_annotation_to_daughter_annotations>>

\* Line 224.
ImportExtract ==
    /\ pc = "extract"
    /\ LET st == extractWordTimes(toolbox_file)
       IN /\ toolbox_refs_to_word_times' = st.refs
          /\ pc' = IF st.exited THEN "error" ELSE "resolve"
    /\ ann_index' = 1
    /\ ImportUnchangedMaps
    /\ UNCHANGED <<elan_file, toolbox_file, output_written>>
    /\ UNCHANGED <<input_file, flexVars>>

\* Lines 273-321 for one annotation whose parent annotation is found.
ImportResolve ==
    /\ pc = "resolve"
    /\ ann_index <= Len(ImportWork)
    /\ LET maps == ResolveAmong(CurrentParentTier.annotations, CurrentAnnotation,
                                <<annotation_to_parent_annotation,
                                  parent_annotation_to_daughter_annotations>>)
       IN /\ CurrentAnnotation \in DOMAIN maps[1]
          /\ annotation_to_parent_annotation' = maps[1]
          /\ parent_annotation_to_daughter_annotations' = maps[2]
    /\ ann_index' = ann_index + 1
    /\ UNCHANGED <<pc, elan_file, toolbox_file, toolbox_refs_to_word_times, output_written>>
    /\ UNCHANGED <<input_file, flexVars>>

\* Lines 319-321: no parent annotation includes the annotation.
ImportResolveFails ==
    /\ pc = "resolve"
    /\ ann_index <= Len(ImportWork)
    /\ LET maps == ResolveAmong(CurrentParentTier.annotations, CurrentAnnotation,
                                <<annotation_to_parent_annotation,
                                  parent_annotation_to_daughter_annotations>>)
       IN CurrentAnnotation \notin DOMAIN maps[1]
    /\ pc' = "error"
    /\ ImportUnchangedMaps
    /\ UNCHANGED <<elan_file, toolbox_file, toolbox_refs_to_word_times, ann_index, output_written>>
    /\ UNCHANGED <<input_file, flexVars>>

\* The loop of line 252 has visited every annotation.
ImportResolved ==
    /\ pc = "resolve"
    /\ ann_index > Len(ImportWork)
    /\ pc' = "assign"
    /\ ann_index' = 1
    /\ ImportUnchangedMaps
    /\ UNCHANGED <<elan_file, toolbox_file, toolbox_refs_to_word_times, output_written>>
    /\ UNCHANGED <<input_file, flexVars>>

\* Lines 331-413 for one annotation whose position is within the list of
\* word start times.  A shorter list of end times ends the script with an
\* IndexError in line 388.
ImportAssign ==
    /\ pc = "assign"
    /\ ann_index <= Len(ImportWork)
    /\ LET times == toolbox_refs_to_word_times[CurrentReference]
           word_position == CurrentPosition
       IN /\ word_position < Len(times[1])
          /\ IF word_position < Len(times[2])
             THEN LET start_time == ConvertTime(times[1][word_position + 1])
                      end_time == ConvertTime(times[2][word_position + 1])
                      repaired == RepairParent(elan_file.time_order, CurrentParent,
                                               start_time, end_time)
                  IN /\ elan_file' = [elan_file EXCEPT !.time_order =
                            SetWordTimes(repaired, CurrentAnnotation, start_time, end_time)]
                     /\ pc' = pc
                     /\ ann_index' = ann_index + 1
             ELSE /\ pc' = "error"
                  /\ UNCHANGED <<elan_file, ann_index>>
    /\ ImportUnchangedMaps
    /\ UNCHANGED <<toolbox_file, toolbox_refs_to_word_times, output_written>>
    /\ UNCHANGED <<input_file, flexVars>>

\* Lines 415-424: the position is not within the list of word start times.
ImportWordCountMismatch ==
    /\ pc = "assign"
    /\ ann_index <= Len(ImportWork)
    /\ CurrentPosition >= Len(toolbox_refs_to_word_times[CurrentReference][1])
    /\ pc' = "error"
    /\ ImportUnchangedMaps
    /\ UNCHANGED <<elan_file, toolbox_file, toolbox_refs_to_word_times, ann_index, output_written>>
    /\ UNCHANGED <<input_file, flexVars>>

\* Lines 431-434: the loop of line 324 is over and the output is written.
ImportWrite ==
    /\ pc = "assign"
    /\ ann_index > Len(ImportWork)
    /\ pc' = "done"
    /\ output_written' = TRUE
    /\ ImportUnchangedMaps
    /\ UNCHANGED <<elan_file, toolbox_file, toolbox_refs_to_word_times, ann_index>>
    /\ UNCHANGED <<input_file, flexVars>>

ImportNext ==
    \/ ImportExtract
    \/ ImportResolve
    \/ ImportResolveFails
    \/ ImportResolved
    \/ ImportAssign
    \/ ImportWordCountMismatch
    \/ ImportWrite


(***************************************************************************)
(* The importer's inputs.  The document is one the Disambiguator has left: *)
(* every annotation has time slots of its own, and every time slot has a   *)
(* value.  Two parent annotations, u1 = [1, 2] and u2 = [2, 3], meet at    *)
(* time 2; each word lies in u1, in u2, at the point where they meet (and  *)
(* so in both), or before both.  The Toolbox file holds a record for u1    *)
(* with zero to two words and any times up to MaxTime, and may hold a      *)
(* record for u2; its times are written as MAU2Toolbox.py writes them.     *)
(***************************************************************************)
Times == 0..MaxTime

ParentIds == <<1, 2>>

ParentReference == <<"u1", "u2">>

ParentInterval == <<(<<1, 2>>), (<<2, 3>>)>>

\* Where a word lies before the import: 1 in u1, 2 in u2, 3 where they meet,
\* 4 before both.
WordInterval == <<(<<1, 2>>), (<<2, 3>>), (<<2, 2>>), (<<0, 0>>)>>

WordIdSeqs == {<< >>, <<3>>, <<3, 4>>, <<4, 3>>}

PairCounts == 0..2

SlotOfStart(a) == 2 * a - 1

SlotOfEnd(a) == 2 * a

ImportDocument(word_ids, where) ==
    LET words == SeqRange(word_ids)
        ids == SeqRange(ParentIds) \cup words
        interval(a) == IF a \in words
                       THEN WordInterval[where[CHOOSE i \in 1..Len(word_ids) : word_ids[i] = a]]
                       ELSE ParentInterval[a]
        slots == SortedIds({SlotOfStart(a) : a \in ids} \cup {SlotOfEnd(a) : a \in ids})
    IN [tiers |-> <<[tier_id |-> "ref@A", linguistic_type |-> "ref",
                     parent_ref |-> "", annotations |-> ParentIds],
                    [tier_id |-> "t@A", linguistic_type |-> "t",
                     parent_ref |-> "ref@A", annotations |-> word_ids]>>,
        annotations |-> [a \in ids |->
            [value |-> IF a \in words THEN "w" ELSE ParentReference[a],
             start |-> SlotOfStart(a), end |-> SlotOfEnd(a)]],
        time_order |-> [i \in 1..Len(slots) |->
            LET a == (slots[i] + 1) \div 2
            IN [id |-> slots[i],
                value |-> IF slots[i] = SlotOfStart(a) THEN interval(a)[1] ELSE interval(a)[2]]]]

\* A document as the Disambiguator leaves it: the parents u1 = [1, 2] and
\* u2 = [2, 3], one word within u1, every annotation on time slots of its own
\* and the time values ascending along the time order.
OrderedDocument ==
    [tiers |-> <<[tier_id |-> "ref@A", linguistic_type |-> "ref",
                  parent_ref |-> "", annotations |-> ParentIds],
                 [tier_id |-> "t@A", linguistic_type |-> "t",
                  parent_ref |-> "ref@A", annotations |-> <<3>>]>>,
     annotations |-> <<[value |-> "u1", start |-> 1, end |-> 4],
                       [value |-> "u2", start |-> 5, end |-> 6],
                       [value |-> "w", start |-> 2, end |-> 3]>>,
     time_order |-> <<[id |-> 1, value |-> 1], [id |-> 2, value |-> 1],
                      [id |-> 3, value |-> 2], [id |-> 4, value |-> 2],
                      [id |-> 5, value |-> 2], [id |-> 6, value |-> 3]>>]

\* One record of the Toolbox file: the reference, the text, and the word
\* start and end times if the record has any.
RawToolboxRecord(reference, starts, ends) ==
    <<[marker |-> "ref", contents |-> <<reference>>],
      [marker |-> "t", contents |-> [i \in 1..Len(starts) |-> "w"]]>>
    \o (IF starts = << >> THEN << >> ELSE <<[marker |-> "WordBegin", contents |-> starts]>>)
    \o (IF ends = << >> THEN << >> ELSE <<[marker |-> "WordEnd", contents |-> ends]>>)

\* A record whose times are written as MAU2Toolbox.py writes them.
ToolboxRecord(reference, pairs) ==
    RawToolboxRecord(reference,
                     [i \in 1..Len(pairs) |-> Format3(pairs[i][1])],
                     [i \in 1..Len(pairs) |-> Format3(pairs[i][2])])

\* The Disambiguator's variables while the importer runs.
FlexIdle ==
    /\ run = 1
    /\ original_annotation_times = EmptyDict
    /\ time_slots_to_annotations = EmptyDict
    /\ parent_time_slots = EmptyDict
    /\ preceding_first_daughter_annotations = EmptyDict
    /\ daughter_positions = EmptyDict
    /\ tier_index = 1
    /\ current_annotation_id = 0
    /\ current_annotation_start_time_slot = 0
    /\ current_annotation_start_time = None
    /\ position = 0
    /\ other_annotations = << >>
    /\ offset = 0
    /\ slot_index = 1
    /\ new_time_order = << >>
    /\ synthesized_from = << >>
    /\ time_order_mapping = EmptyDict

ImportInit ==
    /\ pc = "extract"
    /\ \/ \E word_ids \in WordIdSeqs :
            \E where \in [1..Len(word_ids) -> 1..4] :
               elan_file = ImportDocument(word_ids, where)
       \/ elan_file = OrderedDocument
    /\ \E n \in PairCounts, with_u2 \in BOOLEAN :
         \E pairs \in [1..n -> Times \X Times] :
            toolbox_file = ToolboxRecord("u1", pairs)
                           \o (IF with_u2 THEN ToolboxRecord("u2", <<(<<2, 3>>)>>) ELSE << >>)
    /\ toolbox_refs_to_word_times = EmptyDict
    /\ annotation_to_parent_annotation = EmptyDict
    /\ parent_annotation_to_daughter_annotations = EmptyDict
    /\ ann_index = 1
    /\ output_written = FALSE
    /\ input_file = elan_file
    /\ FlexIdle

SpecImport == ImportInit /\ [][ImportNext]_vars

(***************************************************************************)
(* The importer on a Toolbox file written by hand: the word times are any  *)
(* decimal numbers of seconds, with up to MaxFractionDigits digits after   *)
(* the decimal point or without a decimal point.                           *)
(***************************************************************************)
SomeDigits == {"0", "1", "5"}

DecimalStrings ==
    {<<w>> : w \in SomeDigits}
    \cup UNION {{<<w, ".">> \o f : w \in SomeDigits, f \in [1..n -> SomeDigits]} :
                n \in 1..MaxFractionDigits}

ConvertInit ==
    /\ pc = "extract"
    /\ \E word_ids \in {<<3>>, <<3, 4>>}, where \in {1, 4} :
          elan_file = ImportDocument(word_ids, [i \in 1..Len(word_ids) |-> where])
    /\ \E time \in DecimalStrings :
          toolbox_file = RawToolboxRecord("u1", <<time>>, <<time>>)
    /\ toolbox_refs_to_word_times = EmptyDict
    /\ annotation_to_parent_annotation = EmptyDict
    /\ parent_annotation_to_daughter_annotations = EmptyDict
    /\ ann_index = 1
    /\ output_written = FALSE
    /\ input_file = elan_file
    /\ FlexIdle

SpecConvert == ConvertInit /\ [][ImportNext]_vars


(***************************************************************************)
(* flexibilize_imported_toolbox_in_elan.py                                 *)
(*                                                                         *)
(* The document also holds elan_file.linguistic_types, a sequence of       *)
(* [id, constraints, time_alignable].  An entry of the index               *)
(* time_slots_to_annotations is a tuple <<annotation id, "parent" or       *)
(* "daughter", "start" or "end">>.                                         *)
(***************************************************************************)
\* Lines 57-68.
relevant_linguistic_types ==
    {elan_file.linguistic_types[i].id : i \in
        {j \in 1..Len(elan_file.linguistic_types) :
            elan_file.linguistic_types[j].constraints = "Included_In"}}

time_alignable_types ==
    {elan_file.linguistic_types[i].id : i \in
        {j \in 1..Len(elan_file.linguistic_types) :
            elan_file.linguistic_types[j].time_alignable}}

\* Lines 74-87: the ids of the tiers of the given types, in document order.
RECURSIVE TiersOfTypes(_, _)
TiersOfTypes(tiers, types) ==
    IF tiers = << >> THEN << >>
    ELSE (IF Head(tiers).linguistic_type \in types THEN <<Head(tiers).tier_id>> ELSE << >>)
         \o TiersOfTypes(Tail(tiers), types)

relevant_tiers == TiersOfTypes(elan_file.tiers, relevant_linguistic_types)

time_alignable_tiers == TiersOfTypes(elan_file.tiers, time_alignable_types)

\* Lines 92-117: the times of every annotation of a time-alignable tier that
\* has a start time or an end time.
OriginalAnnotationTimes ==
    LET ids == UNION {SeqRange(GetTierById(t).annotations) : t \in SeqRange(time_alignable_tiers)}
        timed == {a \in ids : GetStartTime(a) # None \/ GetEndTime(a) # None}
    IN [a \in timed |-> <<GetStartTime(a), GetEndTime(a)>>]

\* The tier the loop of line 133 is at, its annotations and those of its
\* parent tier (lines 139-151).
CurrentTier == GetTierById(relevant_tiers[tier_index])

FlexAnnotations == CurrentTier.annotations

FlexParentAnnotations == GetTierById(CurrentTier.parent_ref).annotations

\* Lines 169-183 and 215-229: append to the list of the time slot, or start
\* the list.
AddTuple(index, time_slot, tuple) ==
    IF time_slot \in DOMAIN index
    THEN [index EXCEPT ![time_slot] = Append(@, tuple)]
    ELSE Put(index, time_slot, <<tuple>>)

\* Lines 157-187.  The parent's time slots are entered into parent_time_slots
\* only where the end time slot has no list yet (the else branch of line 181).
RECURSIVE IndexParents(_, _)
IndexParents(parent_annotations, st) ==
    IF parent_annotations = << >> THEN st
    ELSE LET parent_id == Head(parent_annotations)
             parent_start_time_slot == GetStartTimeSlot(parent_id)
             parent_end_time_slot == GetEndTimeSlot(parent_id)
             with_start == AddTuple(st.index, parent_start_time_slot,
                                    <<parent_id, "parent", "start">>)
             with_end == AddTuple(with_start, parent_end_time_slot,
                                  <<parent_id, "parent", "end">>)
         IN IndexParents(Tail(parent_annotations),
                [index |-> with_end,
                 parent_time_slots |->
                    IF parent_end_time_slot \in DOMAIN with_start
                    THEN st.parent_time_slots
                    ELSE Put(Put(st.parent_time_slots, parent_start_time_slot, parent_id),
                             parent_end_time_slot, parent_id)])

\* Lines 203-229.
RECURSIVE IndexDaughters(_, _)
IndexDaughters(annotations, index) ==
    IF annotations = << >> THEN index
    ELSE LET annotation_id == Head(annotations)
             with_start == AddTuple(index, GetStartTimeSlot(annotation_id),
                                    <<annotation_id, "daughter", "start">>)
         IN IndexDaughters(Tail(annotations),
                AddTuple(with_start, GetEndTimeSlot(annotation_id),
                         <<annotation_id, "daughter", "end">>))

\* Lines 235-252: the walk starts at the annotation itself.
WalkFrom(annotations, i) ==
    IF i <= Len(annotations)
    THEN /\ current_annotation_id' = annotations[i]
         /\ current_annotation_start_time_slot' = GetStartTimeSlot(annotations[i])
         /\ current_annotation_start_time' = GetStartTime(annotations[i])
         /\ position' = 0
    ELSE /\ current_annotation_id' = 0
         /\ current_annotation_start_time_slot' = 0
         /\ current_annotation_start_time' = None
         /\ position' = 0

\* Lines 259-272: the for loop over the tuples of one time slot.  Every tuple
\* of another daughter's end moves the walk to that daughter.
RECURSIVE LookAtOthers(_, _)
LookAtOthers(others, cur) ==
    IF others = << >> THEN cur
    ELSE LET other_annotation_id == Head(others)[1]
             other_annotation_type == Head(others)[2]
             other_annotation_part == Head(others)[3]
         IN LookAtOthers(Tail(others),
                IF /\ other_annotation_id # cur.id
                   /\ other_annotation_type = "daughter"
                   /\ other_annotation_part = "end"
                THEN [id |-> other_annotation_id,
                      slot |-> GetStartTimeSlot(other_annotation_id),
                      time |-> GetStartTime(other_annotation_id),
                      position |-> cur.position + 1]
                ELSE cur)

\* A variant of AddDaughter that appends the daughter to the list of every
\* parent that has a list already, and to the list of its own parent.
AddDaughterToEveryList(maps, annotation_id, parent_annotation_id) ==
    <<Put(maps[1], annotation_id, parent_annotation_id),
      IF parent_annotation_id \in DOMAIN maps[2]
      THEN [p \in DOMAIN maps[2] |-> Append(maps[2][p], annotation_id)]
      ELSE Put([p \in DOMAIN maps[2] |-> Append(maps[2][p], annotation_id)],
               parent_annotation_id, <<annotation_id>>)>>

\* Lines 312-318, 330-336 and 375-381.
AddDaughter(maps, annotation_id, parent_annotation_id) ==
    <<Put(maps[1], annotation_id, parent_annotation_id),
      IF parent_annotation_id \in DOMAIN maps[2]
      THEN [maps[2] EXCEPT ![parent_annotation_id] = Append(@, annotation_id)]
      ELSE Put(maps[2], parent_annotation_id, <<annotation_id>>)>>

\* Lines 290-336: the parents of first and last daughters.
RECURSIVE FirstAndLastDaughters(_, _)
FirstAndLastDaughters(annotations, maps) ==
    IF annotations = << >> THEN maps
    ELSE LET annotation_id == Head(annotations)
             annotation_start_time_slot == GetStartTimeSlot(annotation_id)
             annotation_end_time_slot == GetEndTimeSlot(annotation_id)
         IN FirstAndLastDaughters(Tail(annotations),
                IF annotation_start_time_slot \in DOMAIN parent_time_slots
                THEN AddDaughter(maps, annotation_id,
                                 parent_time_slots[annotation_start_time_slot])
                ELSE IF annotation_end_time_slot \in DOMAIN parent_time_slots
                THEN AddDaughter(maps, annotation_id,
                                 parent_time_slots[annotation_end_time_slot])
                ELSE maps)

\* Lines 339-381: the parents of middle daughters.  The result says whether
\* one of the RuntimeErrors of lines 365 and 369 was raised.
RECURSIVE MiddleDaughters(_, _)
MiddleDaughters(annotations, maps) ==
    IF annotations = << >> THEN [maps |-> maps, raised |-> FALSE]
    ELSE LET annotation_id == Head(annotations)
         IN IF \/ GetStartTimeSlot(annotation_id) \in DOMAIN parent_time_slots
               \/ GetEndTimeSlot(annotation_id) \in DOMAIN parent_time_slots
            THEN MiddleDaughters(Tail(annotations), maps)
            ELSE IF /\ annotation_id \in DOMAIN preceding_first_daughter_annotations
                    /\ preceding_first_daughter_annotations[annotation_id] \in DOMAIN maps[1]
            THEN MiddleDaughters(Tail(annotations),
                    AddDaughter(maps, annotation_id,
                        maps[1][preceding_first_daughter_annotations[annotation_id]]))
            ELSE [maps |-> maps, raised |-> TRUE]

(***************************************************************************)
(* The Annotation Graph Builder's steps.                                   *)
(***************************************************************************)
\* Lines 42-129.
FlexStart ==
    /\ pc = "start"
    /\ original_annotation_times' = OriginalAnnotationTimes
    /\ tier_index' = 1
    /\ pc' = IF relevant_tiers = << >> THEN "slots" ELSE "index"
    /\ UNCHANGED <<elan_file, input_file, importVars, mapVars, ann_index, output_written,
                   run, indexVars, graphVars, walkVars, slotVars>>

\* Lines 133-252 for one relevant tier: the index of lines 153-229, and the
\* start of the walk for the tier's first annotation.
FlexIndex ==
    /\ pc = "index"
    /\ LET parents == IndexParents(FlexParentAnnotations,
                         [index |-> time_slots_to_annotations,
                          parent_time_slots |-> EmptyDict])
       IN /\ time_slots_to_annotations' = IndexDaughters(FlexAnnotations, parents.index)
          /\ parent_time_slots' = parents.parent_time_slots
    /\ preceding_first_daughter_annotations' = EmptyDict
    /\ ann_index' = 1
    /\ WalkFrom(FlexAnnotations, 1)
    /\ pc' = "walk"
    /\ UNCHANGED <<elan_file, input_file, importVars, mapVars, output_written, run,
                   original_annotation_times, daughter_positions, tier_index,
                   other_annotations, slotVars>>

\* Lines 254-259: the start time is None, the loop body is entered and the
\* list of the current time slot is taken.
WalkLook ==
    /\ pc = "walk"
    /\ ann_index <= Len(FlexAnnotations)
    /\ current_annotation_start_time = None
    /\ other_annotations' =
          IF current_annotation_start_time_slot \in DOMAIN time_slots_to_annotations
          THEN time_slots_to_annotations[current_annotation_start_time_slot]
          ELSE << >>
    /\ pc' = "walk_for"
    /\ UNCHANGED <<elan_file, input_file, importVars, mapVars, ann_index, output_written,
                   run, original_annotation_times, indexVars, graphVars, tier_index,
                   current_annotation_id, current_annotation_start_time_slot,
                   current_annotation_start_time, position, slotVars>>

\* The walk of an annotation that ends looks at no daughter twice, and a
\* round of the loop of line 254 adds to position at most the number of tuples
\* of one time slot, so position stays below PositionCap.  A walk that does
\* not end may count without end; the model stops counting at PositionCap.
PositionCap ==
    LET n == Cardinality(DOMAIN elan_file.annotations) IN 2 * n * n

\* Lines 259-272, and back to the test of line 254.
WalkFor ==
    /\ pc = "walk_for"
    /\ LET cur == LookAtOthers(other_annotations,
                     [id |-> current_annotation_id,
                      slot |-> current_annotation_start_time_slot,
                      time |-> current_annotation_start_time,
                      position |-> position])
       IN /\ current_annotation_id' = cur.id
          /\ current_annotation_start_time_slot' = cur.slot
          /\ current_annotation_start_time' = cur.time
          /\ position' = IF cur.position > PositionCap THEN PositionCap ELSE cur.position
    /\ other_annotations' = << >>
    /\ pc' = "walk"
    /\ UNCHANGED <<elan_file, input_file, importVars, mapVars, ann_index, output_written,
                   run, original_annotation_times, indexVars, graphVars, tier_index,
                   slotVars>>

\* Lines 254 and 275-283: the start time is not None; the loop is left, the
\* annotation's first daughter and position are saved, and the walk of the
\* next annotation starts.  The else branch of line 285 is never taken: the
\* loop of line 254 is left only with a start time.
WalkFound ==
    /\ pc = "walk"
    /\ ann_index <= Len(FlexAnnotations)
    /\ current_annotation_start_time # None
    /\ LET annotation_id == FlexAnnotations[ann_index]
       IN /\ preceding_first_daughter_annotations' =
                IF current_annotation_id # annotation_id
                THEN Put(preceding_first_daughter_annotations, annotation_id,
                         current_annotation_id)
                ELSE preceding_first_daughter_annotations
          /\ daughter_positions' = Put(daughter_positions, annotation_id, position)
    /\ ann_index' = ann_index + 1
    /\ WalkFrom(FlexAnnotations, ann_index + 1)
    /\ UNCHANGED <<pc, elan_file, input_file, importVars, mapVars, output_written, run,
                   original_annotation_times, indexVars, tier_index, other_annotations,
                   slotVars>>

\* Lines 290-336.
FlexFirstAndLast ==
    /\ pc = "walk"
    /\ ann_index > Len(FlexAnnotations)
    /\ LET maps == FirstAndLastDaughters(FlexAnnotations,
                      <<annotation_to_parent_annotation,
                        parent_annotation_to_daughter_annotations>>)
       IN /\ annotation_to_parent_annotation' = maps[1]
          /\ parent_annotation_to_daughter_annotations' = maps[2]
    /\ pc' = "middle"
    /\ UNCHANGED <<elan_file, input_file, importVars, ann_index, output_written, run,
                   original_annotation_times, indexVars, graphVars, tier_index, walkVars,
                   slotVars>>

\* Lines 339-381 without a RuntimeError, and on to the next relevant tier or
\* to the loop over the time slots (line 406).
FlexMiddle ==
    /\ pc = "middle"
    /\ LET r == MiddleDaughters(FlexAnnotations,
                   <<annotation_to_parent_annotation,
                     parent_annotation_to_daughter_annotations>>)
       IN /\ ~r.raised
          /\ annotation_to_parent_annotation' = r.maps[1]
          /\ parent_annotation_to_daughter_annotations' = r.maps[2]
    /\ IF tier_index < Len(relevant_tiers)
       THEN /\ pc' = "index"
            /\ tier_index' = tier_index + 1
       ELSE /\ pc' = "slots"
            /\ tier_index' = tier_index
    /\ UNCHANGED <<elan_file, input_file, importVars, ann_index, output_written, run,
                   original_annotation_times, indexVars, graphVars, walkVars, slotVars>>

\* Lines 365 and 369: a RuntimeError for a middle daughter.
FlexMiddleFails ==
    /\ pc = "middle"
    /\ LET r == MiddleDaughters(FlexAnnotations,
                   <<annotation_to_parent_annotation,
                     parent_annotation_to_daughter_annotations>>)
       IN /\ r.raised
          /\ annotation_to_parent_annotation' = r.maps[1]
          /\ parent_annotation_to_daughter_annotations' = r.maps[2]
    /\ pc' = "error"
    /\ UNCHANGED <<elan_file, input_file, importVars, ann_index, output_written, run,
                   original_annotation_times, indexVars, graphVars, tier_index, walkVars,
                   slotVars>>

(***************************************************************************)
(* The Anchor Disambiguator: the loop over the original time order.        *)
(***************************************************************************)
\* A variant of TimeSlotAt: the time order is visited from its end.
TimeSlotAtBackwards(i) == elan_file.time_order[Len(elan_file.time_order) + 1 - i]

\* Line 409: the time slot the loop visits in its i-th round.
TimeSlotAt(i) == elan_file.time_order[i]

time_slot == TimeSlotAt(slot_index)

time_slot_id == time_slot.id

relevant_annotations == time_slots_to_annotations[time_slot_id]

\* A variant of NewTimeSlotId: the offset is left out.
NewTimeSlotIdWithoutOffset(old_id, off) == old_id

\* A variant of NewTimeSlotId: the offset is taken off the number.
NewTimeSlotIdOffsetSubtracted(old_id, off) == old_id - off

\* Lines 434, 567, 609, 624, 653: "ts" + str(remove_ts(time_slot_id) + offset).
NewTimeSlotId(old_id, off) == old_id + off

\* A variant of AddTimeSlot: the new time slot is one time unit later.
AddTimeSlotLater(order, id, value) ==
    Append(order, [id |-> id, value |-> IF value = None THEN None ELSE value + 1])

\* A variant of AddTimeSlot: the new time slot gets no time value.
AddTimeSlotWithoutValue(order, id, value) == Append(order, [id |-> id, value |-> None])

\* new_time_order.add_time_slot(elan.ELANTimeSlot(id, value))
AddTimeSlot(order, id, value) == Append(order, [id |-> id, value |-> value])

\* A variant of SetTimeSlot: the other end of the annotation is set.
SetOtherTimeSlot(annotations, annotation_id, part, id) ==
    [annotations EXCEPT ![annotation_id] =
        IF part = "start" THEN [@ EXCEPT !.end = id] ELSE [@ EXCEPT !.start = id]]

\* annotation.set_start_time_slot(id) / annotation.set_end_time_slot(id)
SetTimeSlot(annotations, annotation_id, part, id) ==
    IF part = "start"
    THEN [annotations EXCEPT ![annotation_id].start = id]
    ELSE [annotations EXCEPT ![annotation_id].end = id]

TimeSlotOf(annotation_id, part) ==
    IF part = "start" THEN GetStartTimeSlot(annotation_id) ELSE GetEndTimeSlot(annotation_id)

\* Line 427.
IsParentAndDaughter(r) ==
    Len(r) = 2 /\ r[1][2] = "parent" /\ r[2][2] = "daughter"

\* Lines 452-481: both tuples are starts or both are ends, and the two
\* annotations hold the same time slot there.
ParentAndDaughterAgree(r) ==
    /\ r[1][3] = r[2][3]
    /\ TimeSlotOf(r[1][1], r[1][3]) = TimeSlotOf(r[2][1], r[2][3])

\* Line 490.
IsTwoDaughters(r) ==
    /\ Len(r) = 2
    /\ r[1][2] = "daughter" /\ r[1][3] = "end"
    /\ r[2][2] = "daughter" /\ r[2][3] = "start"

\* Lines 497-548: the parent of the first daughter, the parent's original
\* times, its number of daughters and the first daughter's position are all
\* known.  The subtraction of line 525 needs both times of the parent.
TwoDaughtersKnown(r) ==
    /\ r[1][1] \in DOMAIN annotation_to_parent_annotation
    /\ LET parent_annotation_id == annotation_to_parent_annotation[r[1][1]]
       IN /\ parent_annotation_id \in DOMAIN original_annotation_times
          /\ original_annotation_times[parent_annotation_id][1] # None
          /\ original_annotation_times[parent_annotation_id][2] # None
          /\ parent_annotation_id \in DOMAIN parent_annotation_to_daughter_annotations
    /\ r[1][1] \in DOMAIN daughter_positions

\* A variant of IsSingleParent: any single tuple is taken for a parent's.
IsSingleTuple(r) == Len(r) = 1

\* Lines 597-603.
IsSingleParent(r) == Len(r) = 1 /\ r[1][2] = "parent"

\* A variant of first_annotation_end_time: the position is counted from the
\* last daughter.
first_annotation_end_time_reversed(first_annotation_id) ==
    LET parent_annotation_id == annotation_to_parent_annotation[first_annotation_id]
        parent_start_time == original_annotation_times[parent_annotation_id][1]
        parent_end_time == original_annotation_times[parent_annotation_id][2]
        number_of_daughters ==
            Len(parent_annotation_to_daughter_annotations[parent_annotation_id])
        daughter_length == (parent_end_time - parent_start_time) \div number_of_daughters
    IN parent_start_time
         + daughter_length * (number_of_daughters - daughter_positions[first_annotation_id])

\* A variant of first_annotation_end_time: the daughters' lengths are counted
\* from the end of the parent.
first_annotation_end_time_from_end(first_annotation_id) ==
    LET parent_annotation_id == annotation_to_parent_annotation[first_annotation_id]
        parent_start_time == original_annotation_times[parent_annotation_id][1]
        parent_end_time == original_annotation_times[parent_annotation_id][2]
        number_of_daughters ==
            Len(parent_annotation_to_daughter_annotations[parent_annotation_id])
        daughter_length == (parent_end_time - parent_start_time) \div number_of_daughters
    IN parent_end_time + daughter_length * (daughter_positions[first_annotation_id] + 1)

\* Lines 514-563: the time where the first daughter ends.  The documents of
\* the model give every parent a length that its number of daughters
\* divides, so the quotient of line 538 is a whole number.
first_annotation_end_time(first_annotation_id) ==
    LET parent_annotation_id == annotation_to_parent_annotation[first_annotation_id]
        parent_start_time == original_annotation_times[parent_annotation_id][1]
        parent_end_time == original_annotation_times[parent_annotation_id][2]
        parent_length == parent_end_time - parent_start_time
        number_of_daughters ==
            Len(parent_annotation_to_daughter_annotations[parent_annotation_id])
        daughter_length == parent_length \div number_of_daughters
    IN parent_start_time + daughter_length * (daughter_positions[first_annotation_id] + 1)

\* Line 564 computes the start of the second daughter, one time unit later;
\* line 584 gives the second time slot first_annotation_end_time instead.
second_annotation_start_time(first_annotation_id) ==
    first_annotation_end_time(first_annotation_id) + 1

SlotLoopRuns == pc = "slots" /\ slot_index <= Len(elan_file.time_order)

\* What no round of the loop of line 409 changes.
SlotLoopUnchanged ==
    UNCHANGED <<input_file, importVars, mapVars, ann_index, output_written, run,
                original_annotation_times, indexVars, graphVars, tier_index, walkVars>>

\* Lines 427-487: the time slot of a parent and its first or last daughter.
SlotParentAndDaughter ==
    /\ SlotLoopRuns
    /\ time_slot_id \in DOMAIN time_slots_to_annotations
    /\ IsParentAndDaughter(relevant_annotations)
    /\ ParentAndDaughterAgree(relevant_annotations)
    /\ LET parent_annotation_id == relevant_annotations[1][1]
           annotation_id == relevant_annotations[2][1]
           part == relevant_annotations[1][3]
           new_parent_time_slot_id == NewTimeSlotId(time_slot_id, offset)
           new_daughter_time_slot_id == NewTimeSlotId(time_slot_id, offset + 1)
       IN /\ time_order_mapping' = Put(time_order_mapping, time_slot_id,
                                       new_parent_time_slot_id)
          /\ offset' = offset + 1
          /\ elan_file' = [elan_file EXCEPT !.annotations =
                SetTimeSlot(SetTimeSlot(@, parent_annotation_id, part,
                                        new_parent_time_slot_id),
                            annotation_id, part, new_daughter_time_slot_id)]
          /\ new_time_order' =
                AddTimeSlot(AddTimeSlot(new_time_order, new_parent_time_slot_id,
                                        time_slot.value),
                            new_daughter_time_slot_id, time_slot.value)
          /\ synthesized_from' = synthesized_from \o <<time_slot_id, time_slot_id>>
    /\ slot_index' = slot_index + 1
    /\ pc' = pc
    /\ SlotLoopUnchanged

\* Lines 490-588: the time slot where one daughter ends and the next starts.
SlotTwoDaughters ==
    /\ SlotLoopRuns
    /\ time_slot_id \in DOMAIN time_slots_to_annotations
    /\ IsTwoDaughters(relevant_annotations)
    /\ TwoDaughtersKnown(relevant_annotations)
    /\ LET first_annotation_id == relevant_annotations[1][1]
           second_annotation_id == relevant_annotations[2][1]
           first_time_slot_id == NewTimeSlotId(time_slot_id, offset)
           second_time_slot_id == NewTimeSlotId(time_slot_id, offset + 1)
       IN /\ time_order_mapping' = Put(time_order_mapping, time_slot_id, first_time_slot_id)
          /\ offset' = offset + 1
          /\ elan_file' = [elan_file EXCEPT !.annotations =
                SetTimeSlot(SetTimeSlot(@, first_annotation_id, "end", first_time_slot_id),
                            second_annotation_id, "start", second_time_slot_id)]
          /\ new_time_order' =
                AddTimeSlot(AddTimeSlot(new_time_order, first_time_slot_id,
                                        first_annotation_end_time(first_annotation_id)),
                            second_time_slot_id,
                            first_annotation_end_time(first_annotation_id))
          /\ synthesized_from' = synthesized_from \o <<time_slot_id, time_slot_id>>
    /\ slot_index' = slot_index + 1
    /\ pc' = pc
    /\ SlotLoopUnchanged

\* Lines 597-634: the time slot of a parent alone.
SlotSingleParent ==
    /\ SlotLoopRuns
    /\ time_slot_id \in DOMAIN time_slots_to_annotations
    /\ IsSingleParent(relevant_annotations)
    /\ LET annotation_id == relevant_annotations[1][1]
           new_time_slot_id == NewTimeSlotId(time_slot_id, offset)
       IN /\ time_order_mapping' = Put(time_order_mapping, time_slot_id, new_time_slot_id)
          /\ new_time_order' = AddTimeSlot(new_time_order, new_time_slot_id, time_slot.value)
          /\ synthesized_from' = Append(synthesized_from, time_slot_id)
          /\ elan_file' = [elan_file EXCEPT !.annotations =
                SetTimeSlot(@, annotation_id, relevant_annotations[1][3], new_time_slot_id)]
    /\ slot_index' = slot_index + 1
    /\ UNCHANGED <<pc, offset>>
    /\ SlotLoopUnchanged

\* Lines 650-658: a time slot without relevant annotations gets an entry of
\* the mapping and no time slot of the new time order.
SlotNoRelevantAnnotations ==
    /\ SlotLoopRuns
    /\ time_slot_id \notin DOMAIN time_slots_to_annotations
    /\ time_order_mapping' = Put(time_order_mapping, time_slot_id,
                                 NewTimeSlotId(time_slot_id, offset))
    /\ slot_index' = slot_index + 1
    /\ UNCHANGED <<pc, elan_file, offset, new_time_order, synthesized_from>>
    /\ SlotLoopUnchanged

\* A variant of SlotFails: the script writes what it has before it exits.
SlotFailsWritten ==
    /\ SlotLoopRuns
    /\ time_slot_id \in DOMAIN time_slots_to_annotations
    /\ ~(IsParentAndDaughter(relevant_annotations)
            /\ ParentAndDaughterAgree(relevant_annotations))
    /\ ~(IsTwoDaughters(relevant_annotations) /\ TwoDaughtersKnown(relevant_annotations))
    /\ ~IsSingleParent(relevant_annotations)
    /\ pc' = "error"
    /\ output_written' = TRUE
    /\ UNCHANGED <<elan_file, slotVars, input_file, importVars, mapVars, ann_index, run,
                   original_annotation_times, indexVars, graphVars, tier_index, walkVars>>

\* The exits of lines 481, 509, 522, 535, 593, 640 and 647, the RuntimeError
\* of line 548 and the TypeError of line 525 for a parent without a start or
\* end time.  What the round has changed in memory by then is lost with the
\* process.
SlotFails ==
    /\ SlotLoopRuns
    /\ time_slot_id \in DOMAIN time_slots_to_annotations
    /\ ~(IsParentAndDaughter(relevant_annotations)
            /\ ParentAndDaughterAgree(relevant_annotations))
    /\ ~(IsTwoDaughters(relevant_annotations) /\ TwoDaughtersKnown(relevant_annotations))
    /\ ~IsSingleParent(relevant_annotations)
    /\ pc' = "error"
    /\ UNCHANGED <<elan_file, slotVars>>
    /\ SlotLoopUnchanged

\* Lines 661-666: the new time order replaces the original one and the
\* document is written.
FlexWrite ==
    /\ pc = "slots"
    /\ slot_index > Len(elan_file.time_order)
    /\ elan_file' = [elan_file EXCEPT !.time_order = new_time_order]
    /\ output_written' = TRUE
    /\ pc' = "done"
    /\ UNCHANGED <<input_file, importVars, mapVars, ann_index, run,
                   original_annotation_times, indexVars, graphVars, tier_index, walkVars,
                   slotVars>>

\* The script is started again, on the document it has written (line 42).
FlexRunAgain ==
    /\ pc = "done"
    /\ run = 1
    /\ run' = 2
    /\ input_file' = elan_file
    /\ pc' = "start"
    /\ output_written' = FALSE
    /\ annotation_to_parent_annotation' = EmptyDict
    /\ parent_annotation_to_daughter_annotations' = EmptyDict
    /\ original_annotation_times' = EmptyDict
    /\ time_slots_to_annotations' = EmptyDict
    /\ parent_time_slots' = EmptyDict
    /\ preceding_first_daughter_annotations' = EmptyDict
    /\ daughter_positions' = EmptyDict
    /\ tier_index' = 1
    /\ ann_index' = 1
    /\ offset' = 0
    /\ slot_index' = 1
    /\ new_time_order' = << >>
    /\ synthesized_from' = << >>
    /\ time_order_mapping' = EmptyDict
    /\ UNCHANGED <<elan_file, importVars, walkVars>>

FlexNext ==
    \/ FlexStart
    \/ FlexIndex
    \/ WalkLook
    \/ WalkFor
    \/ WalkFound
    \/ FlexFirstAndLast
    \/ FlexMiddle
    \/ FlexMiddleFails
    \/ SlotParentAndDaughter
    \/ SlotTwoDaughters
    \/ SlotSingleParent
    \/ SlotNoRelevantAnnotations
    \/ SlotFails
    \/ FlexWrite
    \/ FlexRunAgain

(***************************************************************************)
(* The Disambiguator's inputs.  A document as ELAN's Toolbox import leaves *)
(* it has time slots ts1, ts2, ... in ascending order; every parent        *)
(* annotation (tier ref@A) has a start and an end time; its daughters      *)
(* (tier t@A, of a type with the constraint Included_In) form a chain: the *)
(* first starts at the parent's start time slot, each next one starts at   *)
(* the time slot where the one before ends, the last ends at the parent's  *)
(* end time slot, and the time slots inside the chain have no time value.  *)
(* A layout gives each parent's number of daughters.  The model runs the   *)
(* script on every such document and on every document that differs from   *)
(* one in a single place (Defects).                                        *)
(***************************************************************************)
ParentNumbers == 1..2

Layouts == UNION {[1..n -> 0..MaxDaughters] : n \in ParentNumbers}

RECURSIVE Factorial(_)
Factorial(n) == IF n = 0 THEN 1 ELSE n * Factorial(n - 1)

\* Every time of a document is a multiple of TimeUnit milliseconds, which
\* every possible number of daughters divides.
TimeUnit == Factorial(2 * MaxDaughters)

ParentLengths == {0, TimeUnit}

SlotsOf(n) == IF n = 0 THEN 2 ELSE n + 1

RECURSIVE SlotsBefore(_, _)
SlotsBefore(counts, p) ==
    IF p = 1 THEN 0 ELSE SlotsBefore(counts, p - 1) + SlotsOf(counts[p - 1])

RECURSIVE DaughtersBefore(_, _)
DaughtersBefore(counts, p) ==
    IF p = 1 THEN 0 ELSE DaughtersBefore(counts, p - 1) + counts[p - 1]

ParentStartTime(p) == (2 * p - 1) * TimeUnit

FlexDocument(counts, lengths) ==
    LET parents == Len(counts)
        daughters == DaughtersBefore(counts, parents + 1)
        slots == SlotsBefore(counts, parents + 1)
        parent_of(a) == CHOOSE p \in 1..parents :
                            /\ DaughtersBefore(counts, p) < a - parents
                            /\ a - parents <= DaughtersBefore(counts, p + 1)
        place(a) == a - parents - DaughtersBefore(counts, parent_of(a))
        start_slot(p) == SlotsBefore(counts, p) + 1
        end_slot(p) == SlotsBefore(counts, p + 1)
    IN [linguistic_types |->
            <<[id |-> "ref", constraints |-> "", time_alignable |-> TRUE],
              [id |-> "t", constraints |-> "Included_In", time_alignable |-> TRUE]>>,
        tiers |->
            <<[tier_id |-> "ref@A", linguistic_type |-> "ref", parent_ref |-> "",
               annotations |-> [i \in 1..parents |-> i]],
              [tier_id |-> "t@A", linguistic_type |-> "t", parent_ref |-> "ref@A",
               annotations |-> [i \in 1..daughters |-> parents + i]]>>,
        annotations |-> [a \in 1..(parents + daughters) |->
            IF a <= parents
            THEN [value |-> "u", start |-> start_slot(a), end |-> end_slot(a)]
            ELSE [value |-> "w",
                  start |-> start_slot(parent_of(a)) + place(a) - 1,
                  end |-> start_slot(parent_of(a)) + place(a)]],
        time_order |-> [i \in 1..slots |->
            [id |-> i,
             value |-> IF \E p \in 1..parents : i = start_slot(p)
                       THEN ParentStartTime(CHOOSE p \in 1..parents : i = start_slot(p))
                       ELSE IF \E p \in 1..parents : i = end_slot(p)
                       THEN LET p == CHOOSE p \in 1..parents : i = end_slot(p)
                            IN ParentStartTime(p) + lengths[p]
                       ELSE None]]]

\* The single places where a document may differ from a well-formed one:
\* a time slot has lost or gained its time value; one annotation's start or
\* end is another time slot of the document, or a new one without a value;
\* two neighbours of the daughter tier have changed places in the tier; the
\* parent tier has a second daughter tier m@A of the same type, empty or with
\* one annotation that spans the first parent; the document has a further
\* top-level tier x@A with one annotation on two time slots of its own.
Defects(doc) ==
    LET slots == Len(doc.time_order)
        words == Len(doc.tiers[2].annotations)
    IN {[kind |-> "none", annotation |-> 0, part |-> "start", slot |-> 0]}
       \cup {[kind |-> "value", annotation |-> 0, part |-> "start", slot |-> s] :
                s \in 1..slots}
       \cup {d \in [kind : {"slot"}, annotation : DOMAIN doc.annotations,
                    part : {"start", "end"}, slot : 1..(slots + 1)] :
                d.slot # (IF d.part = "start" THEN doc.annotations[d.annotation].start
                          ELSE doc.annotations[d.annotation].end)}
       \cup {[kind |-> "order", annotation |-> i, part |-> "start", slot |-> 0] :
                i \in 1..(words - 1)}
       \cup {[kind |-> "tier", annotation |-> n, part |-> "start", slot |-> 0] :
                n \in 0..1}
       \cup {[kind |-> "other", annotation |-> 0, part |-> "start", slot |-> 0]}

WithDefect(doc, d) ==
    IF d.kind = "value"
    THEN [doc EXCEPT !.time_order[d.slot].value = IF @ = None THEN TimeUnit ELSE None]
    ELSE IF d.kind = "slot"
    THEN [doc EXCEPT
            !.annotations = SetTimeSlot(@, d.annotation, d.part, d.slot),
            !.time_order = IF d.slot > Len(@)
                           THEN Append(@, [id |-> d.slot, value |-> None])
                           ELSE @]
    ELSE IF d.kind = "order"
    THEN [doc EXCEPT !.tiers[2].annotations =
            [i \in 1..Len(@) |-> IF i = d.annotation THEN @[i + 1]
                                 ELSE IF i = d.annotation + 1 THEN @[i - 1]
                                 ELSE @[i]]]
    ELSE IF d.kind = "tier"
    THEN [doc EXCEPT
            !.tiers = Append(@, [tier_id |-> "m@A", linguistic_type |-> "t",
                                 parent_ref |-> "ref@A",
                                 annotations |-> IF d.annotation = 0 THEN << >>
                                                 ELSE <<Len(doc.annotations) + 1>>]),
            !.annotations = IF d.annotation = 0 THEN @
                            ELSE Append(@, [value |-> "m", start |-> @[1].start,
                                            end |-> @[1].end])]
    ELSE IF d.kind = "other"
    THEN LET slots == Len(doc.time_order)
             after == ParentStartTime(Len(doc.tiers[1].annotations) + 1)
         IN [doc EXCEPT
               !.tiers = Append(@, [tier_id |-> "x@A", linguistic_type |-> "ref",
                                    parent_ref |-> "",
                                    annotations |-> <<Len(doc.annotations) + 1>>]),
               !.annotations = Append(@, [value |-> "x", start |-> slots + 1,
                                          end |-> slots + 2]),
               !.time_order = @ \o <<[id |-> slots + 1, value |-> after],
                                     [id |-> slots + 2, value |-> after + TimeUnit]>>]
    ELSE doc

FlexInit ==
    /\ pc = "start"
    /\ \E counts \in Layouts :
         \E lengths \in [1..Len(counts) -> ParentLengths] :
            \E d \in Defects(FlexDocument(counts, lengths)) :
               elan_file = WithDefect(FlexDocument(counts, lengths), d)
    /\ input_file = elan_file
    /\ toolbox_file = << >>
    /\ toolbox_refs_to_word_times = EmptyDict
    /\ annotation_to_parent_annotation = EmptyDict
    /\ parent_annotation_to_daughter_annotations = EmptyDict
    /\ ann_index = 1
    /\ output_written = FALSE
    /\ FlexIdle

SpecFlex == FlexInit /\ [][FlexNext]_vars

(***************************************************************************)
(* The properties.                                                         *)
(***************************************************************************)
ImportParents == SeqRange(GetTierById("ref@A").annotations)

\* The words resolved to the parent annotation p.
WordsUnder(p) ==
    {d \in DOMAIN annotation_to_parent_annotation : annotation_to_parent_annotation[d] = p}

\* The time a parent annotation had in the document as it was read.
OriginalParentStart(p) == TimeValueIn(input_file.time_order, input_file.annotations[p].start)

OriginalParentEnd(p) == TimeValueIn(input_file.time_order, input_file.annotations[p].end)

C2_WordCountChecked ==
    pc = "done" =>
        \A p \in ImportParents :
            GetAnnotationValue(p) \in DOMAIN toolbox_refs_to_word_times =>
                Len(toolbox_refs_to_word_times[GetAnnotationValue(p)][1])
                    = Cardinality(WordsUnder(p))

\* C8 (the parent is only widened): in every step of the importer no parent
\* annotation starts later or ends earlier than before, and a time of a
\* parent annotation changes only in the step for one of its words whose new
\* start is below the parent's start or whose new end is above its end.
C8_Step ==
    \A p \in ImportParents :
        /\ GetStartTime(p)' <= GetStartTime(p)
        /\ GetEndTime(p)' >= GetEndTime(p)
        /\ (GetStartTime(p)' # GetStartTime(p) \/ GetEndTime(p)' # GetEndTime(p)) =>
              /\ pc = "assign"
              /\ ann_index <= Len(ImportWork)
              /\ CurrentParent = p
              /\ LET times == toolbox_refs_to_word_times[CurrentReference]
                 IN \/ ConvertTime(times[1][CurrentPosition + 1]) < GetStartTime(p)
                    \/ ConvertTime(times[2][CurrentPosition + 1]) > GetEndTime(p)

C10_TimesByPosition ==
    pc = "done" =>
        \A d \in DOMAIN annotation_to_parent_annotation :
            LET p == annotation_to_parent_annotation[d]
                times == toolbox_refs_to_word_times[GetAnnotationValue(p)]
                i == Cardinality({e \in WordsUnder(p) : e < d})
            IN /\ i < Len(times[1])
               /\ GetStartTime(d) = ConvertTime(times[1][i + 1])
               /\ GetEndTime(d) = ConvertTime(times[2][i + 1])


\* The digits of a decimal string before and after its decimal point.
DotPlace(s) ==
    IF \E i \in 1..Len(s) : s[i] = "."
    THEN CHOOSE i \in 1..Len(s) : s[i] = "."
    ELSE Len(s) + 1

WholeDigits(s) == SubSeq(s, 1, DotPlace(s) - 1)

FractionDigits(s) == SubSeq(s, DotPlace(s) + 1, Len(s))

RECURSIVE TenTo(_)
TenTo(n) == IF n = 0 THEN 1 ELSE 10 * TenTo(n - 1)

\* v is the number of milliseconds that the decimal string s, a number of
\* seconds, stands for: v = 1000 * (whole + fraction / 10^f).
IsMilliseconds(v, s) ==
    LET f == Len(FractionDigits(s))
    IN v * TenTo(f) = 1000 * (ParseInt(WholeDigits(s)) * TenTo(f) + ParseInt(FractionDigits(s)))

\* C9 (conversion to milliseconds), as the specification states it: the time a word is given is
\* the integer that the digits of the decimal string form once the decimal
\* point is removed, and that integer is the string's value in milliseconds.
C9_ConvertedToMilliseconds ==
    pc = "done" =>
        \A d \in DOMAIN annotation_to_parent_annotation :
            LET p == annotation_to_parent_annotation[d]
                times == toolbox_refs_to_word_times[GetAnnotationValue(p)]
                i == Cardinality({e \in WordsUnder(p) : e < d})
            IN /\ GetStartTime(d) = ParseInt(RemoveDots(times[1][i + 1]))
               /\ IsMilliseconds(GetStartTime(d), times[1][i + 1])
               /\ GetEndTime(d) = ParseInt(RemoveDots(times[2][i + 1]))
               /\ IsMilliseconds(GetEndTime(d), times[2][i + 1])


(***************************************************************************)
(* The Disambiguator's properties.                                         *)
(***************************************************************************)
\* The place of a time slot in the time order the run has read.
OriginalPlace(id) ==
    CHOOSE i \in 1..Len(input_file.time_order) : input_file.time_order[i].id = id

\* The annotations of the constrained tiers and of their parent tiers.
ConstrainedAnnotations ==
    UNION {SeqRange(GetTierById(t).annotations)
           \cup SeqRange(GetTierById(GetTierById(t).parent_ref).annotations) :
           t \in SeqRange(relevant_tiers)}

\* The boundaries <<annotation, part>> that hold the time slot id.
BoundariesAt(id) ==
    {b \in ConstrainedAnnotations \X {"start", "end"} : TimeSlotOf(b[1], b[2]) = id}

\* C3 (order preservation): for time slots A and B of the original time
\* order with A before B, every time slot the Disambiguator has emitted for A
\* stands in the new time order before every time slot it has emitted for B.
C3_OrderPreserved ==
    \A i, j \in 1..Len(new_time_order) :
        OriginalPlace(synthesized_from[i]) < OriginalPlace(synthesized_from[j]) => i < j

\* C3: a run has completed in which at least two time slots were split in two.
C3_Witness ==
    /\ pc = "done"
    /\ offset >= 2
    /\ \E i, j \in 1..Len(new_time_order) : synthesized_from[i] # synthesized_from[j]

\* C4 (no shared time slot): when the Disambiguator has completed, every time
\* slot of the new time order is held by exactly one boundary (start or end)
\* of one annotation among the parents and daughters of the constrained tiers.
C4_NoSharedTimeSlot ==
    pc = "done" =>
        \A i \in 1..Len(elan_file.time_order) :
            Cardinality(BoundariesAt(elan_file.time_order[i].id)) = 1

\* C4: a run has completed on a document in which a parent shared a time
\* slot with a daughter and two daughters shared a time slot.
C4_Witness ==
    /\ pc = "done"
    /\ run = 1
    /\ \E s \in DOMAIN time_slots_to_annotations :
          IsParentAndDaughter(time_slots_to_annotations[s])
    /\ \E s \in DOMAIN time_slots_to_annotations :
          IsTwoDaughters(time_slots_to_annotations[s])

\* C5 (idempotence), as the specification states it: the Disambiguator, run on the document that
\* a completed run of it has written, completes without error and leaves the
\* time order and every annotation's time slots as they were.
C5_RunAgainChangesNothing ==
    run = 2 => /\ pc # "error"
               /\ pc = "done" => elan_file = input_file

\* C6 (sibling boundary), as the specification states it: for a time slot shared by the end of
\* daughter d1 (position k under parent p with n daughters) and the start of
\* the next daughter, the time slot emitted for d1's end has the value
\* p.start + ((p.end - p.start) / n) * (k + 1), and the one emitted for the
\* next daughter's start has that value plus 1.
C6_SiblingBoundaryValues ==
    \A i \in 1..(Len(new_time_order) - 1) :
        (/\ synthesized_from[i] = synthesized_from[i + 1]
         /\ IsTwoDaughters(time_slots_to_annotations[synthesized_from[i]]))
        => LET d1 == time_slots_to_annotations[synthesized_from[i]][1][1]
               p == annotation_to_parent_annotation[d1]
               n == Len(parent_annotation_to_daughter_annotations[p])
               k == daughter_positions[d1]
               p_start == original_annotation_times[p][1]
               p_end == original_annotation_times[p][2]
               value == p_start + ((p_end - p_start) \div n) * (k + 1)
           IN /\ new_time_order[i].value = value
              /\ new_time_order[i + 1].value = value + 1

\* The round of the loop of line 254 that is about to run finds no daughter
\* that ends at the time slot where the walk stands.
BrokenChain ==
    /\ pc = "walk_for"
    /\ \A i \in 1..Len(other_annotations) :
          ~(/\ other_annotations[i][1] # current_annotation_id
            /\ other_annotations[i][2] = "daughter"
            /\ other_annotations[i][3] = "end")

\* C7 (termination of the backward walk), as the specification states it: when the walk stands
\* at a daughter whose start time slot has no time value and no other
\* daughter ends at that time slot (broken chain), the run ends with an error
\* instead of going round the loop again.
C7_BrokenChainAborts == [][BrokenChain => pc' = "error"]_vars

\* The daughters of the tier the Builder is at that start or end at one of
\* the two time slots of the parent annotation p.
DaughtersAtBoundaryOf(p) ==
    {d \in SeqRange(FlexAnnotations) :
        {GetStartTimeSlot(d), GetEndTimeSlot(d)}
            \cap {GetStartTimeSlot(p), GetEndTimeSlot(p)} # {}}

\* C11 (parents of first and last daughters), as the specification states it:
\* when the Builder has looked up the first and last daughters of a
\* constrained tier, every daughter of the tier that starts or ends at one of
\* the two time slots of an annotation P of the parent tier is mapped to P
\* and listed among P's daughters.
C11_BoundaryDaughtersMapped ==
    pc = "middle" =>
        \A p \in SeqRange(FlexParentAnnotations) :
            \A d \in DaughtersAtBoundaryOf(p) :
                /\ d \in DOMAIN annotation_to_parent_annotation
                /\ annotation_to_parent_annotation[d] = p
                /\ p \in DOMAIN parent_annotation_to_daughter_annotations
                /\ d \in SeqRange(parent_annotation_to_daughter_annotations[p])

\* Toolbox files of one or two records whose word start and word end lines
\* are present or missing independently of each other.
SomeWordStarts == {<< >>, <<Format3(1)>>, <<Format3(1), Format3(2)>>}

SomeWordEnds == {<< >>, <<Format3(2)>>, <<Format3(2), Format3(3)>>}

ExtractInit ==
    /\ pc = "extract"
    /\ \E word_ids \in {<<3>>, <<3, 4>>}, where \in {1, 2} :
          elan_file = ImportDocument(word_ids, [i \in 1..Len(word_ids) |-> where])
    /\ \E starts1 \in SomeWordStarts, ends1 \in SomeWordEnds, with_u2 \in BOOLEAN :
         \E starts2 \in SomeWordStarts, ends2 \in SomeWordEnds :
            toolbox_file = RawToolboxRecord("u1", starts1, ends1)
                           \o (IF with_u2 THEN RawToolboxRecord("u2", starts2, ends2)
                               ELSE << >>)
    /\ toolbox_refs_to_word_times = EmptyDict
    /\ annotation_to_parent_annotation = EmptyDict
    /\ parent_annotation_to_daughter_annotations = EmptyDict
    /\ ann_index = 1
    /\ output_written = FALSE
    /\ input_file = elan_file
    /\ FlexIdle

SpecExtract == ExtractInit /\ [][ImportNext]_vars

\* The lines of the Toolbox file that carry the reference marker.
ReferenceLines ==
    {i \in 1..Len(toolbox_file) : toolbox_file[i].marker = reference_tier_name}

\* The line after the record that begins at line i: the next reference
\* marker line, or the end of the file.
RecordEnd(i) ==
    IF \E j \in ReferenceLines : j > i
    THEN CHOOSE j \in ReferenceLines : j > i /\ \A k \in ReferenceLines : k > i => j <= k
    ELSE Len(toolbox_file) + 1

\* The values on the lines from..to - 1 that carry the marker, in order.
RECURSIVE ValuesOnLines(_, _, _)
ValuesOnLines(marker, from, to) ==
    IF from >= to THEN << >>
    ELSE (IF toolbox_file[from].marker = marker THEN toolbox_file[from].contents ELSE << >>)
         \o ValuesOnLines(marker, from + 1, to)

RecordWordStarts(i) == ValuesOnLines(word_start_tier_name, i + 1, RecordEnd(i))

RecordWordEnds(i) == ValuesOnLines(word_end_tier_name, i + 1, RecordEnd(i))

\* C12 (word times of a reference), as the specification states it: the map
\* returned by extractWordTimes holds exactly the references whose record has
\* a word start value and a word end value, and the two lists of a reference
\* are the values on the word start and word end lines of its own record, in
\* order; no value of a record that was skipped is among them.
C12_TimesOfOwnRecord ==
    pc \in {"resolve", "assign", "done"} =>
        /\ DOMAIN toolbox_refs_to_word_times =
              {toolbox_file[i].contents[1] : i \in
                  {j \in ReferenceLines : RecordWordStarts(j) # << >>
                                          /\ RecordWordEnds(j) # << >>}}
        /\ \A i \in ReferenceLines :
              toolbox_file[i].contents[1] \in DOMAIN toolbox_refs_to_word_times =>
                 toolbox_refs_to_word_times[toolbox_file[i].contents[1]] =
                    <<RecordWordStarts(i), RecordWordEnds(i)>>

\* The references of the Toolbox file whose record has no word start and no
\* word end value.
ReferencesWithoutTimes ==
    {toolbox_file[i].contents[1] : i \in
        {j \in ReferenceLines : RecordWordStarts(j) = << >> /\ RecordWordEnds(j) = << >>}}

\* The importer is about to look up the parent of a word that lies within a
\* parent annotation carrying a reference without times.
WordOfReferenceWithoutTimes ==
    /\ pc = "resolve"
    /\ ann_index <= Len(ImportWork)
    /\ \E parent_annotation_id \in SeqRange(CurrentParentTier.annotations) :
          /\ GetAnnotationValue(parent_annotation_id) \in ReferencesWithoutTimes
          /\ IsIncludedIn(CurrentAnnotation, parent_annotation_id)

\* C13 (reference without times), as the specification states it: a
\* reference that is in the Toolbox file with no recorded times does not end
\* the import; a word of the parent annotation carrying that reference is
\* passed over with its time slots as they are, and the run goes on.
C13_ReferenceWithoutTimesSkipped ==
    [][WordOfReferenceWithoutTimes => (pc' # "error" /\ elan_file' = elan_file)]_vars

\* The place in the installed time order of the time slot with the id.
InstalledPlace(id) ==
    CHOOSE i \in 1..Len(elan_file.time_order) : elan_file.time_order[i].id = id

\* C14 (no dangling time slot), as the specification states it: when the
\* Disambiguator has completed, the start and the end of every annotation of
\* the document, on any tier, is the id of a time slot of the installed time
\* order, and that time slot was made from the time slot the annotation held
\* before the run.
C14_TimeSlotsRebound ==
    pc = "done" =>
        \A a \in DOMAIN elan_file.annotations : \A part \in {"start", "end"} :
            /\ \E i \in 1..Len(elan_file.time_order) :
                  elan_file.time_order[i].id = TimeSlotOf(a, part)
            /\ synthesized_from[InstalledPlace(TimeSlotOf(a, part))] =
                  (IF part = "start" THEN input_file.annotations[a].start
                   ELSE input_file.annotations[a].end)

\* The three shapes of a time slot's tuples that the loop over the time
\* order handles: a parent and a daughter that both start or both end there;
\* a daughter that ends and a daughter that starts there; one parent.
HandledShape(r) ==
    \/ /\ Len(r) = 2
       /\ r[1][2] = "parent" /\ r[2][2] = "daughter"
       /\ r[1][3] = r[2][3]
    \/ /\ Len(r) = 2
       /\ r[1][2] = "daughter" /\ r[1][3] = "end"
       /\ r[2][2] = "daughter" /\ r[2][3] = "start"
    \/ /\ Len(r) = 1
       /\ r[1][2] = "parent"

\* The loop is at a time slot whose tuples have none of the three shapes.
AtUnhandledShape ==
    /\ slot_index <= Len(elan_file.time_order)
    /\ time_slot_id \in DOMAIN time_slots_to_annotations
    /\ ~HandledShape(relevant_annotations)

\* C15 (unexpected sharing of a time slot): when the loop over the time order
\* comes to a time slot whose tuples have none of the three handled shapes
\* (three or more tuples, two parents, one daughter alone, ...), the run ends
\* with an error there; nothing follows an error, and no output is written.
C15_UnhandledShapeAborts ==
    [][/\ pc # "error"
       /\ (pc = "slots" /\ AtUnhandledShape) => (pc' = "error" /\ ~output_written')]_vars

\* C15: the loop has handled a time slot and has then ended the run at a time
\* slot that holds one daughter alone, or three or more tuples.
C15_Witness ==
    /\ pc = "error"
    /\ ~output_written
    /\ new_time_order # << >>
    /\ AtUnhandledShape
    /\ \/ Len(relevant_annotations) >= 3
       \/ Len(relevant_annotations) = 1 /\ relevant_annotations[1][2] = "daughter"

\* C16 (new ids ascend): at every point of the loop over the time order and
\* after it, each time slot of the new time order has a greater id than
\* every time slot added before it, so that no two have the same id.
C16_NewIdsAscend ==
    \A i, j \in 1..Len(new_time_order) :
        i < j => new_time_order[i].id < new_time_order[j].id

\* C16: the loop has added time slots with an offset of two or more, for
\* more than one original time slot.
C16_Witness ==
    /\ pc = "slots"
    /\ offset >= 2
    /\ Len(new_time_order) >= 4
    /\ slot_index <= Len(elan_file.time_order)

\* C17 (one end widened): in the step that gives a word its times, if the
\* word's new end is above its parent's end and its new start is not below
\* the parent's start, the parent then ends exactly at the word's new end and
\* starts where it started; the same with start and end exchanged.
C17_Step ==
    (pc = "assign" /\ ann_index <= Len(ImportWork) /\ ann_index' = ann_index + 1) =>
        \A p \in ImportParents :
            CurrentParent = p =>
                LET times == toolbox_refs_to_word_times[CurrentReference]
                    start_time == ConvertTime(times[1][CurrentPosition + 1])
                    end_time == ConvertTime(times[2][CurrentPosition + 1])
                IN /\ (end_time > GetEndTime(p) /\ start_time >= GetStartTime(p)) =>
                         /\ GetEndTime(p)' = end_time
                         /\ GetStartTime(p)' = GetStartTime(p)
                   /\ (start_time < GetStartTime(p) /\ end_time <= GetEndTime(p)) =>
                         /\ GetStartTime(p)' = start_time
                         /\ GetEndTime(p)' = GetEndTime(p)

C18_Step ==
    (/\ pc = "slots"
     /\ slot_index <= Len(elan_file.time_order)
     /\ time_slot_id \in DOMAIN time_slots_to_annotations
     /\ Len(relevant_annotations) = 2
     /\ relevant_annotations[1][2] = "parent"
     /\ relevant_annotations[2][2] = "daughter"
     /\ relevant_annotations[1][3] = relevant_annotations[2][3]) =>
        LET parent_annotation_id == relevant_annotations[1][1]
            annotation_id == relevant_annotations[2][1]
            n == time_slot_id + offset
            value == time_slot.value
        IN /\ pc' = "slots"
           /\ new_time_order' = new_time_order \o <<[id |-> n, value |-> value],
                                                    [id |-> n + 1, value |-> value]>>
           /\ IF relevant_annotations[1][3] = "start"
              THEN /\ elan_file'.annotations[parent_annotation_id].start = n
                   /\ elan_file'.annotations[annotation_id].start = n + 1
              ELSE /\ elan_file'.annotations[parent_annotation_id].end = n
                   /\ elan_file'.annotations[annotation_id].end = n + 1
           /\ offset' = offset + 1

C18_ParentAndDaughterSplit == [][C18_Step]_vars

\* C18: the loop has split a time slot with a time value that a parent and
\* its last daughter ended at, after an offset had built up.
C18_Witness ==
    /\ pc = "slots"
    /\ slot_index > 1
    /\ offset >= 2
    /\ LET r == time_slots_to_annotations[TimeSlotAt(slot_index - 1).id]
       IN /\ TimeSlotAt(slot_index - 1).id \in DOMAIN time_slots_to_annotations
          /\ Len(r) = 2 /\ r[1][2] = "parent" /\ r[2][2] = "daughter"
          /\ r[1][3] = "end" /\ r[2][3] = "end"
          /\ TimeSlotAt(slot_index - 1).value # None
          /\ Len(new_time_order) >= 2
          /\ new_time_order[Len(new_time_order)].id = TimeSlotAt(slot_index - 1).id + offset

\* C19 (a parent alone at a time slot): when the loop over the time order
\* comes to a time slot that only one parent starts or ends at, it adds one
\* time slot, with the original time value and the id n, the number of the
\* original time slot plus the offset; the parent then starts (ends) at n,
\* its other end is as it was, and the offset is as it was.
C19_Step ==
    (/\ pc = "slots"
     /\ slot_index <= Len(elan_file.time_order)
     /\ time_slot_id \in DOMAIN time_slots_to_annotations
     /\ Len(relevant_annotations) = 1
     /\ relevant_annotations[1][2] = "parent") =>
        LET annotation_id == relevant_annotations[1][1]
            n == time_slot_id + offset
        IN /\ pc' = "slots"
           /\ new_time_order' = Append(new_time_order,
                                       [id |-> n, value |-> time_slot.value])
           /\ IF relevant_annotations[1][3] = "start"
              THEN /\ elan_file'.annotations[annotation_id].start = n
                   /\ elan_file'.annotations[annotation_id].end =
                         elan_file.annotations[annotation_id].end
              ELSE /\ elan_file'.annotations[annotation_id].end = n
                   /\ elan_file'.annotations[annotation_id].start =
                         elan_file.annotations[annotation_id].start
           /\ offset' = offset

C19_SingleParentKept == [][C19_Step]_vars

\* C19: after an offset had built up, the loop has rebound the start of a
\* parent that holds its start time slot alone.
C19_Witness ==
    /\ pc = "slots"
    /\ slot_index > 1
    /\ offset >= 1
    /\ LET s == TimeSlotAt(slot_index - 1)
       IN /\ s.id \in DOMAIN time_slots_to_annotations
          /\ Len(time_slots_to_annotations[s.id]) = 1
          /\ time_slots_to_annotations[s.id][1][2] = "parent"
          /\ time_slots_to_annotations[s.id][1][3] = "start"
          /\ s.value # None
          /\ new_time_order # << >>
          /\ new_time_order[Len(new_time_order)] = [id |-> s.id + offset, value |-> s.value]

\* The annotations of the constrained tiers and those of their parent tiers.
ConstrainedDaughters ==
    UNION {SeqRange(GetTierById(t).annotations) : t \in SeqRange(relevant_tiers)}

ConstrainedParents ==
    UNION {SeqRange(GetTierById(GetTierById(t).parent_ref).annotations) :
           t \in SeqRange(relevant_tiers)}

\* The parents that start at the time slot at which the daughter d started
\* in the document as it was read: d is a first daughter if there is one.
ParentsStartingWith(d) ==
    {p \in ConstrainedParents :
        input_file.annotations[p].start = input_file.annotations[d].start}

\* The daughters that end at the time slot at which d starts.
PrecedingSiblings(d) ==
    {o \in ConstrainedDaughters \ {d} :
        input_file.annotations[o].end = input_file.annotations[d].start}

\* The chain of shared time slots from d back to a first daughter:
\* <<number of daughters before d, first daughter>>, or << >> if the chain
\* breaks or forks within fuel steps.
RECURSIVE ChainBack(_, _)
ChainBack(d, fuel) ==
    IF ParentsStartingWith(d) # {} THEN <<0, d>>
    ELSE IF fuel = 0 \/ Cardinality(PrecedingSiblings(d)) # 1 THEN << >>
    ELSE LET r == ChainBack(CHOOSE o \in PrecedingSiblings(d) : TRUE, fuel - 1)
         IN IF r = << >> THEN << >> ELSE <<r[1] + 1, r[2]>>

\* C20 (position in the chain), as the specification states it: the position
\* the Builder records for a daughter is the number of daughters before it in
\* the chain of shared time slots back to the first daughter, 0 for the first
\* daughter itself; and a daughter that shares no time slot with a parent is
\* mapped to the parent of that first daughter.
C20_PositionInChain ==
    /\ \A d \in DOMAIN daughter_positions :
          LET r == ChainBack(d, Cardinality(ConstrainedDaughters))
          IN r # << >> => daughter_positions[d] = r[1]
    /\ \A d \in DOMAIN annotation_to_parent_annotation :
          LET r == ChainBack(d, Cardinality(ConstrainedDaughters))
              interior ==
                  \A p \in ConstrainedParents :
                      {input_file.annotations[d].start, input_file.annotations[d].end}
                        \cap {input_file.annotations[p].start,
                              input_file.annotations[p].end} = {}
          IN (interior /\ r # << >>) =>
                annotation_to_parent_annotation[d] \in ParentsStartingWith(r[2])

\* C21 (sibling boundary in any tier order), as the specification states it:
\* when the loop over the time order comes to a time slot held by exactly the
\* end of one daughter and the start of another, whichever of the two comes
\* first in its tier, and the parent of the ending daughter is known with
\* both its times, the loop adds two time slots, rebinds the end of the one
\* daughter to the first and the start of the other to the second, and goes
\* on.
C21_Step ==
    \A i \in 1..2 :
        (/\ pc = "slots"
         /\ slot_index <= Len(elan_file.time_order)
         /\ time_slot_id \in DOMAIN time_slots_to_annotations
         /\ Len(relevant_annotations) = 2
         /\ relevant_annotations[i][2] = "daughter"
         /\ relevant_annotations[i][3] = "end"
         /\ relevant_annotations[3 - i][2] = "daughter"
         /\ relevant_annotations[3 - i][3] = "start"
         /\ TwoDaughtersKnown(<<relevant_annotations[i], relevant_annotations[3 - i]>>)) =>
            /\ pc' = "slots"
            /\ Len(new_time_order') = Len(new_time_order) + 2
            /\ elan_file'.annotations[relevant_annotations[i][1]].end =
                  time_slot_id + offset
            /\ elan_file'.annotations[relevant_annotations[3 - i][1]].start =
                  time_slot_id + offset + 1

C21_SiblingBoundaryAnyOrder == [][C21_Step]_vars

\* C22 (parent times kept): when the Disambiguator has completed, every
\* parent annotation starts and ends at the times it had in the document as
\* it was read; and at every point of the loop over the time order, a new
\* time slot whose time value is not that of the time slot it was made from
\* was made from a time slot where one daughter ended and another started.
C22_ParentTimesKept ==
    /\ pc = "done" =>
          \A p \in ConstrainedParents :
              /\ GetStartTime(p) = OriginalParentStart(p)
              /\ GetEndTime(p) = OriginalParentEnd(p)
    /\ \A i \in 1..Len(new_time_order) :
          new_time_order[i].value # TimeValueIn(input_file.time_order, synthesized_from[i]) =>
              LET r == time_slots_to_annotations[synthesized_from[i]]
              IN /\ Len(r) = 2
                 /\ r[1][2] = "daughter" /\ r[1][3] = "end"
                 /\ r[2][2] = "daughter" /\ r[2][3] = "start"

\* C22: a run has completed on a document with a parent of some length whose
\* daughters met at a time slot that got a new time value.
C22_Witness ==
    /\ pc = "done"
    /\ run = 1
    /\ \E p \in ConstrainedParents : GetStartTime(p) < GetEndTime(p)
    /\ \E i \in 1..Len(new_time_order) :
          new_time_order[i].value # TimeValueIn(input_file.time_order, synthesized_from[i])

\* The daughters the Builder has mapped to the parent p.
FlexDaughtersOf(p) ==
    {d \in ConstrainedDaughters \cap DOMAIN annotation_to_parent_annotation :
        annotation_to_parent_annotation[d] = p}

\* The daughters mapped to p form a chain from p's start time slot to p's end
\* time slot in the document as it was read.
IsChainOf(p) ==
    \A d \in FlexDaughtersOf(p) :
        /\ \/ input_file.annotations[d].start = input_file.annotations[p].start
           \/ \E e \in FlexDaughtersOf(p) \ {d} :
                 input_file.annotations[e].end = input_file.annotations[d].start
        /\ \/ input_file.annotations[d].end = input_file.annotations[p].end
           \/ \E e \in FlexDaughtersOf(p) \ {d} :
                 input_file.annotations[e].start = input_file.annotations[d].end

\* C23 (chain within the parent): when the Disambiguator has completed, for
\* every parent p with both times whose daughters form a chain: the daughter that started at p's start time slot starts at p's
\* start time, the daughter that ended at p's end time slot ends at p's end
\* time, a daughter does not end after the next one starts, and every start
\* and end of a daughter lies within p's times.
C23_ChainWithinParent ==
    pc = "done" =>
        \A p \in ConstrainedParents :
            (GetStartTime(p) # None /\ GetEndTime(p) # None /\ IsChainOf(p)) =>
                \A d \in FlexDaughtersOf(p) :
                    /\ input_file.annotations[d].start = input_file.annotations[p].start
                          => GetStartTime(d) = GetStartTime(p)
                    /\ input_file.annotations[d].end = input_file.annotations[p].end
                          => GetEndTime(d) = GetEndTime(p)
                    /\ \A e \in FlexDaughtersOf(p) :
                          input_file.annotations[d].end = input_file.annotations[e].start
                             => GetEndTime(d) <= GetStartTime(e)
                    /\ GetStartTime(p) <= GetStartTime(d)
                    /\ GetStartTime(d) <= GetEndTime(p)
                    /\ GetStartTime(p) <= GetEndTime(d)
                    /\ GetEndTime(d) <= GetEndTime(p)

\* C23: a run has completed on a parent of some length with three daughters.
C23_Witness ==
    /\ pc = "done"
    /\ run = 1
    /\ \E p \in ConstrainedParents :
          /\ GetStartTime(p) # None
          /\ GetStartTime(p) < GetEndTime(p)
          /\ Cardinality(FlexDaughtersOf(p)) = 3
          /\ \E d \in FlexDaughtersOf(p) :
                GetStartTime(p) < GetStartTime(d) /\ GetEndTime(d) < GetEndTime(p)

\* The time values of a time order do not decrease along it, time slots
\* without a value left aside.
NonDecreasing(order) ==
    \A i, j \in 1..Len(order) :
        (i < j /\ order[i].value # None /\ order[j].value # None) =>
            order[i].value <= order[j].value

C25_ImportKeepsOrder ==
    (pc = "done" /\ toolbox_file # << >> /\ NonDecreasing(input_file.time_order)) =>
        NonDecreasing(elan_file.time_order)

\* C26 (the importer changes time values only): in every step of the
\* importer the tiers, the annotations with their start and end time slots,
\* and the ids of the time order in their order stay as they are; a time
\* slot's value changes only in the step that gives a word its times, and
\* then it is the start or end time slot of that word, or the start time
\* slot of the word's parent, now earlier, or the parent's end time slot, now
\* later.
C26_Step ==
    /\ elan_file'.tiers = elan_file.tiers
    /\ elan_file'.annotations = elan_file.annotations
    /\ Len(elan_file'.time_order) = Len(elan_file.time_order)
    /\ \A i \in 1..Len(elan_file.time_order) :
          /\ elan_file'.time_order[i].id = elan_file.time_order[i].id
          /\ elan_file'.time_order[i].value # elan_file.time_order[i].value =>
                /\ pc = "assign"
                /\ ann_index <= Len(ImportWork)
                /\ \/ elan_file.time_order[i].id
                         \in {GetStartTimeSlot(CurrentAnnotation),
                              GetEndTimeSlot(CurrentAnnotation)}
                   \/ /\ elan_file.time_order[i].id = GetStartTimeSlot(CurrentParent)
                      /\ elan_file'.time_order[i].value < elan_file.time_order[i].value
                   \/ /\ elan_file.time_order[i].id = GetEndTimeSlot(CurrentParent)
                      /\ elan_file'.time_order[i].value > elan_file.time_order[i].value

C26_OnlyTimeValuesChange == [][C26_Step]_vars

\* C26: the importer has completed, a word has got other times and its
\* parent another end, and the parent beside it is as it was.
C26_Witness ==
    /\ pc = "done"
    /\ elan_file.annotations = input_file.annotations
    /\ \E d \in DOMAIN annotation_to_parent_annotation :
          LET p == annotation_to_parent_annotation[d]
          IN /\ GetStartTime(d) # TimeValueIn(input_file.time_order,
                                             input_file.annotations[d].start)
             /\ GetEndTime(p) # OriginalParentEnd(p)
             /\ \E q \in ImportParents \ {p} :
                   /\ GetStartTime(q) = OriginalParentStart(q)
                   /\ GetEndTime(q) = OriginalParentEnd(q)

\* Either script, on each of its inputs: the importer is the script that was
\* given a Toolbox file.
ScriptsNext ==
    \/ toolbox_file # << >> /\ ImportNext
    \/ toolbox_file = << >> /\ FlexNext

SpecScripts == (ImportInit \/ FlexInit) /\ [][ScriptsNext]_vars

\* C27 (output at the end only): in every step of either script, the output
\* is written only by the step that ends the run without error, a run that
\* ends with an error has written nothing, and once the output is written
\* the document is not changed any more.
C27_Step ==
    /\ output_written' => pc' = "done"
    /\ pc' = "error" => (~output_written /\ ~output_written')
    /\ output_written => elan_file' = elan_file

C27_OutputOnlyAtEnd == [][C27_Step]_vars

\* C27: a run of the Disambiguator has ended with an error after it had
\* rebound annotations, and has written nothing.
C27_Witness ==
    /\ pc = "error"
    /\ ~output_written
    /\ toolbox_file = << >>
    /\ elan_file.annotations # input_file.annotations

\* The places <<time slot, index in its list>> of the tuple in the index.
PlacesInIndex(tuple) ==
    {place \in UNION {{<<s, i>> : i \in 1..Len(time_slots_to_annotations[s])} :
                      s \in DOMAIN time_slots_to_annotations} :
        time_slots_to_annotations[place[1]][place[2]] = tuple}

\* C28 (one tuple per boundary), as the specification states it: when the
\* Builder has scanned all constrained tiers, the tuple of every parent or
\* daughter annotation and each of its two ends is in the index exactly
\* once, in the list of the time slot the annotation holds at that end, also
\* when several constrained tiers have the same parent tier.
C28_OneTuplePerBoundary ==
    pc = "slots" =>
        \A a \in ConstrainedParents \cup ConstrainedDaughters :
            \A role \in {r \in {"parent", "daughter"} :
                           \/ r = "parent" /\ a \in ConstrainedParents
                           \/ r = "daughter" /\ a \in ConstrainedDaughters} :
                /\ PlacesInIndex(<<a, role, "start">>)
                      = {p \in PlacesInIndex(<<a, role, "start">>) :
                            p[1] = input_file.annotations[a].start}
                /\ PlacesInIndex(<<a, role, "end">>)
                      = {p \in PlacesInIndex(<<a, role, "end">>) :
                            p[1] = input_file.annotations[a].end}
                /\ Cardinality(PlacesInIndex(<<a, role, "start">>)) = 1
                /\ Cardinality(PlacesInIndex(<<a, role, "end">>)) = 1

\* How often x occurs in the sequence s.
Occurrences(s, x) == Cardinality({i \in 1..Len(s) : s[i] = x})

\* C29 (one daughter list per word), as the specification states it: when
\* the importer has resolved the parents, every word is in the daughter list
\* of the parent it was resolved to, once, and in no other daughter list.
C29_ListedUnderOneParent ==
    (toolbox_file # << >> /\ pc \in {"assign", "done"}) =>
        \A d \in DOMAIN annotation_to_parent_annotation :
            \A p \in ImportParents :
                (IF p \in DOMAIN parent_annotation_to_daughter_annotations
                 THEN Occurrences(parent_annotation_to_daughter_annotations[p], d)
                 ELSE 0)
                  = (IF p = annotation_to_parent_annotation[d] THEN 1 ELSE 0)

\* C30 (one daughter list per daughter): when the Annotation Graph Builder
\* has finished without an error, every daughter of a constrained tier has a
\* parent in annotation_to_parent_annotation, is once in the daughter list
\* of that parent and in no other daughter list, so that the length of a
\* parent's daughter list is the number of daughters resolved to the parent.
C30_DaughterCountedOnce ==
    (toolbox_file = << >> /\ pc = "slots") =>
        /\ \A d \in ConstrainedDaughters :
              /\ d \in DOMAIN annotation_to_parent_annotation
              /\ annotation_to_parent_annotation[d]
                     \in DOMAIN parent_annotation_to_daughter_annotations
              /\ \A p \in DOMAIN parent_annotation_to_daughter_annotations :
                    Occurrences(parent_annotation_to_daughter_annotations[p], d)
                      = (IF p = annotation_to_parent_annotation[d] THEN 1 ELSE 0)
        /\ \A p \in DOMAIN parent_annotation_to_daughter_annotations :
              Len(parent_annotation_to_daughter_annotations[p])
                = Cardinality({d \in ConstrainedDaughters :
                                  annotation_to_parent_annotation[d] = p})

\* C30: the Builder has finished for a parent with several daughters and
\* the loop over the time order has divided its duration.
C30_Witness ==
    /\ toolbox_file = << >>
    /\ pc = "done"
    /\ \E p \in DOMAIN parent_annotation_to_daughter_annotations :
          Len(parent_annotation_to_daughter_annotations[p]) >= 3

=============================================================================
